---- MODULE Spec2Model ----
(***************************************************************************)
(* Model of enhanced_tile_downloader.py: the per-tile fetch with its retry *)
(* loop (download_tile), the per-zoom worker pool                          *)
(* (download_tiles_for_zoom_level) and the zoom loop of main.              *)
(*                                                                         *)
(* A tile is <<z, x, y>>.  The disk maps every tile path                   *)
(* output/z/x/y.png to "absent", "partial" (created, body not completely   *)
(* written) or "full".  os.path.exists is true of "partial" and "full".    *)
(***************************************************************************)
EXTENDS Integers, Sequences, FiniteSets, TLC

\* ------------------------------------------------------------ bounds
MaxCoord == 1      \* tile indices are drawn from 0..MaxCoord
MaxTiles == 2      \* largest rectangle handed to one call, in tiles
MaxRetries == 1    \* --retries is drawn from 0..MaxRetries
MaxWorkers == 2    \* --workers is drawn from 1..MaxWorkers
MaxZoom == 1       \* zoom levels are drawn from 0..MaxZoom
MaxCalls == 2      \* runs of the same call on one output directory
MaxGeoZoom == 3    \* the projection is exercised on zoom levels 0..MaxGeoZoom

Coords == 0..MaxCoord
Zooms == 0..MaxZoom
Tiles == Zooms \X Coords \X Coords

\* ------------------------------------------------------------ network answers
\* What one session.get can produce: a response with a status code, or one
\* of the requests exceptions caught at lines 159, 166 and 173.
Statuses == {200, 400, 403, 404, 500}
GetErrors == {"ConnectionError", "Timeout", "RequestException"}
Answers == [kind : {"response"}, status : Statuses]
             \cup [kind : GetErrors, status : {0}]

\* What happens after a 2xx response while the body is stored (lines 139-142):
\* everything is written; iter_content raises a requests exception in the
\* middle of the stream; os.makedirs/open raise OSError; f.write raises
\* OSError after part of the body was written.
IoOutcomes == {"complete", "stream_error", "oserror_open", "oserror_write"}

\* ------------------------------------------------------------ deg2num, get_tile_range
\* Degrees are integers here.  A latitude is a whole number of 1.8e-7
\* degrees, so that MERCATOR_MAX_LAT = 85.05112878 is exactly 472506271 and
\* 9 degrees are 50000000; a longitude is a whole number of 5e-7 degrees, so
\* that one degree is 2000000.  The two never meet in one expression.
MERCATOR_MAX_LAT == 472506271
LatDeg9(k) == k * 50000000      \* the latitude of 9*k degrees
LonDeg(d) == d * 2000000        \* the longitude of d degrees

Abs(v) == IF v < 0 THEN -v ELSE v
Min(a, b) == IF a < b THEN a ELSE b
Max(a, b) == IF a > b THEN a ELSE b

\* int(a / d) for d > 0: Python's int() truncates toward zero
Trunc(a, d) == IF a >= 0 THEN a \div d ELSE -((-a) \div d)

\* max(-MERCATOR_MAX_LAT, min(MERCATOR_MAX_LAT, lat)), lines 42, 79 and 80
ClampLat(lat) == Max(-MERCATOR_MAX_LAT, Min(MERCATOR_MAX_LAT, lat))

\* The latitudes and longitudes the projection is exercised on: the poles,
\* the Mercator limits, a latitude 9e-7 degrees inside the northern limit
\* (within the tolerance of line 75) and one 1.08e-6 degrees inside the
\* southern limit (outside it), 45 degrees north and south, the equator; the
\* seam, a longitude 5e-7 degrees from each side of it, the quarter turns,
\* and -450 and 270 degrees beyond the seam.
LatSamples == {LatDeg9(-10), -MERCATOR_MAX_LAT, 6 - MERCATOR_MAX_LAT,
               LatDeg9(-5), LatDeg9(0), LatDeg9(5),
               MERCATOR_MAX_LAT - 5, MERCATOR_MAX_LAT, LatDeg9(10)}
LonSamples == {LonDeg(-450), LonDeg(-180), LonDeg(-180) + 1, LonDeg(-90),
               LonDeg(0), LonDeg(90), LonDeg(180) - 1, LonDeg(180),
               LonDeg(270)}

\* (1.0 - log(tan(lat_rad) + 1/cos(lat_rad)) / pi) / 2.0 of line 48 in
\* billionths, truncated toward zero, for the clamped sample latitudes.  At
\* the southern limit the float is 1.000000000006 and at the northern limit
\* -6.2e-12.
MercatorFraction ==
    (-MERCATOR_MAX_LAT :> 1000000000) @@ ((6 - MERCATOR_MAX_LAT) :> 999999965)
    @@ (LatDeg9(-5) :> 640274963) @@ (LatDeg9(0) :> 500000000)
    @@ (LatDeg9(5) :> 359725036) @@ ((MERCATOR_MAX_LAT - 5) :> 28)
    @@ (MERCATOR_MAX_LAT :> 0)

\* xtile % int(n), line 52 (variant: the column is clamped like the row)
Mut_WrapX(xtile, n) == Max(0, Min(xtile, n - 1))
WrapX(xtile, n) == xtile % n

\* max(0, min(ytile, int(n) - 1)), line 56 (variant: no clamp)
Mut_ClampY(ytile, n) == ytile
ClampY(ytile, n) == Max(0, Min(ytile, n - 1))

\* deg2num, lines 36-58, as <<xtile, ytile>>.  n divides 360 degrees and
\* 1000000000 for every zoom used, so int(v / 360.0 * n) is Trunc(v, 360/n).
deg2num(lat_deg, lon_deg, zoom) ==
    LET lat == ClampLat(lat_deg)
        n == 2 ^ zoom
        xtile == Trunc(lon_deg + LonDeg(180), LonDeg(360) \div n)
        ytile == Trunc(MercatorFraction[lat], 1000000000 \div n)
    IN  <<WrapX(xtile, n), ClampY(ytile, n)>>

\* abs(a - b) < epsilon with epsilon = 1e-6 degrees, lines 75 and 82-85:
\* fewer than 50/9 latitude units, fewer than 2 longitude units
NearLat(a, b) == Abs(a - b) <= 50 \div 9
NearLon(a, b) == Abs(a - b) < LonDeg(1) \div 1000000

\* clamped_..._lat_for_check, lines 79-80 (variant: the latitude is compared
\* as given)
Mut_LatForCheck(lat) == lat
LatForCheck(lat) == ClampLat(lat)

\* is_global_lon and is_global_lat of lines 82-85, on the ordered box
IsGlobalLon(min_lon, max_lon) ==
    NearLon(min_lon, LonDeg(-180)) /\ NearLon(max_lon, LonDeg(180))
IsGlobalLat(min_lat, max_lat) ==
    /\ NearLat(LatForCheck(min_lat), -MERCATOR_MAX_LAT)
    /\ NearLat(LatForCheck(max_lat), MERCATOR_MAX_LAT)

\* get_tile_range, lines 61-115, as <<min_x, max_x, min_y, max_y>>
get_tile_range(min_lat, min_lon, max_lat, max_lon, zoom) ==
    LET lo_lat == Min(min_lat, max_lat)
        hi_lat == Max(min_lat, max_lat)
        lo_lon == Min(min_lon, max_lon)
        hi_lon == Max(min_lon, max_lon)
        n_tiles_at_zoom == 2 ^ zoom
        c1 == deg2num(hi_lat, lo_lon, zoom)
        c2 == deg2num(lo_lat, hi_lon, zoom)
    IN  IF IsGlobalLon(lo_lon, hi_lon) /\ IsGlobalLat(lo_lat, hi_lat)
        THEN <<0, n_tiles_at_zoom - 1, 0, n_tiles_at_zoom - 1>>
        ELSE <<Min(c1[1], c2[1]), Max(c1[1], c2[1]),
               Min(c1[2], c2[2]), Max(c1[2], c2[2])>>

\* ------------------------------------------------------------ download_tile
\* os.path.exists(filepath), line 129 (variant: the check is left out)
Mut_FileExists(d, t) == FALSE
FileExists(d, t) == d[t] # "absent"

\* while attempt <= retries, line 134 (variant: attempt < retries)
Mut_LoopGuard(attempt, retries) == attempt < retries
LoopGuard(attempt, retries) == attempt <= retries

\* response.raise_for_status(), line 137: HTTPError for 4xx and 5xx
RaisesForStatus(status) == status >= 400 /\ status < 600

\* Truth value of a requests.Response object, as used by
\* "... if http_err.response else 'N/A'" on line 146: Response.__bool__
\* returns Response.ok, which is False for every status raise_for_status
\* raises on.
ResponseTruthy(status) == ~RaisesForStatus(status)

\* status_code of line 146; -1 stands for the string 'N/A'
StatusCodeSeen(status) == IF ResponseTruthy(status) THEN status ELSE -1

\* status_code in [400, 404, 403], line 149
NoRetryStatus(code) == code \in {400, 404, 403}

\* ------------------------------------------------------------ download_tiles_for_zoom_level
\* total_tiles_in_this_zoom, line 201
TotalTiles(min_x, max_x, min_y, max_y) ==
    (max_x - min_x + 1) * (max_y - min_y + 1)

\* Python's range(a, b) as a sequence
PyRange(a, b) == IF b > a THEN [i \in 1..(b - a) |-> a + i - 1] ELSE << >>

\* the task list built by the nested loops of lines 210-213 (variants: the
\* inner range stops at max_y; each loop runs at least once; every task of
\* a column gets the row min_y)
Mut_BuildTasks(z, min_x, max_x, min_y, max_y) ==
    LET xs == PyRange(min_x, max_x + 1)
        ys == PyRange(min_y, max_y)
        F[k \in 0..Len(xs)] ==
            IF k = 0 THEN << >>
            ELSE F[k - 1] \o [j \in 1..Len(ys) |-> <<z, xs[k], ys[j]>>]
    IN  F[Len(xs)]
Mut_BuildTasksOnce(z, min_x, max_x, min_y, max_y) ==
    LET xs == IF max_x >= min_x THEN PyRange(min_x, max_x + 1) ELSE <<min_x>>
        ys == IF max_y >= min_y THEN PyRange(min_y, max_y + 1) ELSE <<min_y>>
        F[k \in 0..Len(xs)] ==
            IF k = 0 THEN << >>
            ELSE F[k - 1] \o [j \in 1..Len(ys) |-> <<z, xs[k], ys[j]>>]
    IN  F[Len(xs)]
Mut_BuildTasksSameRow(z, min_x, max_x, min_y, max_y) ==
    LET xs == PyRange(min_x, max_x + 1)
        ys == PyRange(min_y, max_y + 1)
        F[k \in 0..Len(xs)] ==
            IF k = 0 THEN << >>
            ELSE F[k - 1] \o [j \in 1..Len(ys) |-> <<z, xs[k], min_y>>]
    IN  F[Len(xs)]
BuildTasks(z, min_x, max_x, min_y, max_y) ==
    LET xs == PyRange(min_x, max_x + 1)
        ys == PyRange(min_y, max_y + 1)
        F[k \in 0..Len(xs)] ==
            IF k = 0 THEN << >>
            ELSE F[k - 1] \o [j \in 1..Len(ys) |-> <<z, xs[k], ys[j]>>]
    IN  F[Len(xs)]

VARIABLES
    mainpc,     \* where main is: "start", "loop", "call", "done", "error", "nothing", "crashed"; "harness" when the function is called directly
    args,       \* the parsed command line of main
    zoom_level_ranges,  \* main's map from zoom level to <<min_x, max_x, min_y, max_y>>
    zcur,       \* loop variable z of main's download loop
    overall,    \* <<overall_successful_downloads, overall_failed_downloads>>
    ncalls,     \* calls of download_tiles_for_zoom_level made so far
    frpc,       \* where download_tiles_for_zoom_level is: "idle", "submit", "collect", "unwinding", "returned", "raised"
    fr,         \* its parameters
    session,    \* the requests.Session of the current call: "none", "open", "closed"
    tasks,      \* its task list
    nsub,       \* how many tasks have been submitted to the executor
    tk,         \* per task: the future's state and the frame of download_tile
    counts,     \* <<successful_downloads, failed_downloads>>
    ret,        \* the returned pair, << >> while nothing was returned
    disk,       \* the output directory
    allExisted, \* whether every tile of the rectangle had a file when the call began
    proj,       \* a geographic box and zoom, with what deg2num and get_tile_range returned for them
    stub        \* the network and disk a scripted run is played against

vars == <<mainpc, args, zoom_level_ranges, zcur, overall, ncalls, frpc, fr, session, tasks, nsub,
          tk, counts, ret, disk, allExisted, proj, stub>>

\* A task not yet submitted.  calls counts session.get invocations, hist is
\* "permanent" ("transient") while every answer met was of that class and
\* "mixed" otherwise, existed tells whether the file was found at line 129,
\* started how often a worker began the task, counted how often its result
\* was added to the counters, picks how often random.choice(SUBDOMAINS) was
\* evaluated for it.
FreshTask == [st |-> "unsubmitted", attempt |-> 0, result |-> "none",
              calls |-> 0, hist |-> "none", existed |-> FALSE,
              started |-> 0, counted |-> 0, picks |-> 0]

NoArgs == [min_zoom |-> 0, max_zoom |-> 0,
           coord_params_specified |-> FALSE, tile_params_specified |-> FALSE,
           min_lat |-> 0, min_lon |-> 0, max_lat |-> 0, max_lon |-> 0,
           min_x |-> 0, max_x |-> 0, min_y |-> 0, max_y |-> 0,
           workers |-> 1, retries |-> 0]

NoParams == [zoom |-> 0, min_x |-> 0, max_x |-> 0, min_y |-> 0, max_y |-> 0,
             max_workers |-> 1, retries |-> 0]

\* no box projected; no script
NoProj == [min_lat |-> 0, min_lon |-> 0, max_lat |-> 0, max_lon |-> 0,
           zoom |-> 0, point |-> << >>, range |-> << >>]
NoStub == [script |-> << >>, disk0 |-> << >>]

Rect(p) == {t \in Tiles : /\ t[1] = p.zoom
                          /\ p.min_x <= t[2] /\ t[2] <= p.max_x
                          /\ p.min_y <= t[3] /\ t[3] <= p.max_y}

Running == {i \in 1..Len(tasks) : tk[i].st = "running"}
Pending == {i \in 1..Len(tasks) : tk[i].st = "pending"}
Finished == {i \in 1..Len(tasks) : tk[i].st = "done"}

\* Entry of download_tiles_for_zoom_level, lines 199-216: the early return of
\* an empty rectangle, else the session and the task list.
FetchEnter(p) ==
    /\ fr' = p
    /\ ncalls' = ncalls + 1
    /\ counts' = <<0, 0>>
    /\ nsub' = 0
    /\ allExisted' = \A t \in Rect(p) : disk[t] # "absent"
    /\ IF TotalTiles(p.min_x, p.max_x, p.min_y, p.max_y) <= 0
       THEN /\ frpc' = "returned"
            /\ ret' = <<0, 0>>
            /\ session' = "none"
            /\ tasks' = << >>
            /\ tk' = << >>
       ELSE /\ ret' = << >>
            /\ session' = "open"
            /\ tasks' = BuildTasks(p.zoom, p.min_x, p.max_x, p.min_y, p.max_y)
            /\ tk' = [i \in 1..Len(tasks') |-> FreshTask]
            /\ frpc' = IF Len(tasks') = 0 THEN "collect" ELSE "submit"
    /\ UNCHANGED disk

\* executor.submit of lines 219-221, one task at a time
Submit ==
    /\ frpc = "submit"
    /\ nsub < Len(tasks)
    /\ nsub' = nsub + 1
    /\ tk' = [tk EXCEPT ![nsub + 1].st = "pending"]
    /\ frpc' = IF nsub + 1 = Len(tasks) THEN "collect" ELSE "submit"
    /\ UNCHANGED <<mainpc, args, zoom_level_ranges, zcur, overall, ncalls, fr, session, tasks,
                   counts, ret, disk, allExisted, proj, stub>>

\* ThreadPoolExecutor(max_workers=...), line 218: a thread is free
\* (variant: one thread per task)
Mut_WorkerFree(running, max_workers) == TRUE
WorkerFree(running, max_workers) == Cardinality(running) < max_workers

\* A free worker thread takes the oldest queued task and runs download_tile
\* up to the loop, lines 123-134: the subdomain is drawn and the url built
\* (lines 123-126), then the file is looked for.
WorkerStart ==
    /\ Pending # {}
    /\ WorkerFree(Running, fr.max_workers)
    /\ LET i == CHOOSE j \in Pending : \A k \in Pending : j <= k
           ex == FileExists(disk, tasks[i])
       IN  tk' = [tk EXCEPT ![i] =
                 [@ EXCEPT !.started = @ + 1,
                           !.picks = @ + 1,
                           !.existed = (disk[tasks[i]] # "absent"),
                           !.st = IF ex \/ ~LoopGuard(0, fr.retries)
                                  THEN "done" ELSE "running",
                           !.result = IF ex THEN "true"
                                      ELSE IF ~LoopGuard(0, fr.retries)
                                           THEN "false" ELSE "none"]]
    /\ UNCHANGED <<mainpc, args, zoom_level_ranges, zcur, overall, ncalls, frpc, fr, session,
                   tasks, nsub, counts, ret, disk, allExisted, proj, stub>>

\* The class of one attempt's outcome
Class(ans) ==
    IF ans.kind # "response" THEN "transient"
    ELSE IF ans.status \in {400, 403, 404} THEN "permanent"
    ELSE IF RaisesForStatus(ans.status) THEN "transient"
    ELSE "mixed"

NextHist(h, c) == IF h = "none" \/ h = c THEN c ELSE "mixed"

\* attempt += 1 and the test that follows it in every handler
\* (lines 153-158, 160-165, 167-172, 175-180), then the loop test of line 134
AfterFailure(t, retries) ==
    IF t.attempt + 1 <= retries /\ LoopGuard(t.attempt + 1, retries)
    THEN [t EXCEPT !.attempt = @ + 1]
    ELSE [t EXCEPT !.attempt = @ + 1, !.st = "done", !.result = "false"]

\* One iteration of the loop of download_tile, lines 135-180, for task i with
\* the network answering ans and the storing of the body ending as io.
Attempt(i, ans, io) ==
    /\ tk[i].st = "running"
    /\ LET t == [tk[i] EXCEPT !.calls = @ + 1,
                              !.hist = NextHist(@, Class(ans))]
           tile == tasks[i]
       IN
       IF ans.kind # "response"
       THEN \* session.get raised: lines 159-180
            /\ tk' = [tk EXCEPT ![i] = AfterFailure(t, fr.retries)]
            /\ UNCHANGED disk
       ELSE IF RaisesForStatus(ans.status)
       THEN \* HTTPError handler, lines 145-158
            /\ tk' = [tk EXCEPT ![i] =
                        IF NoRetryStatus(StatusCodeSeen(ans.status))
                        THEN [t EXCEPT !.st = "done", !.result = "false"]
                        ELSE AfterFailure(t, fr.retries)]
            /\ UNCHANGED disk
       ELSE \* lines 139-144
            CASE io = "complete" ->
                    /\ disk' = [disk EXCEPT ![tile] = "full"]
                    /\ tk' = [tk EXCEPT ![i] =
                                [t EXCEPT !.st = "done", !.result = "true"]]
              [] io = "stream_error" ->
                    \* open(filepath, 'wb') created or truncated the file
                    /\ disk' = [disk EXCEPT ![tile] = "partial"]
                    /\ tk' = [tk EXCEPT ![i] = AfterFailure(t, fr.retries)]
              [] io = "oserror_open" ->
                    \* OSError is caught by no handler: the future raises
                    /\ UNCHANGED disk
                    /\ tk' = [tk EXCEPT ![i] =
                                [t EXCEPT !.st = "done", !.result = "exc"]]
              [] io = "oserror_write" ->
                    /\ disk' = [disk EXCEPT ![tile] = "partial"]
                    /\ tk' = [tk EXCEPT ![i] =
                                [t EXCEPT !.st = "done", !.result = "exc"]]
    /\ UNCHANGED <<mainpc, args, zoom_level_ranges, zcur, overall, ncalls, frpc, fr, session,
                   tasks, nsub, counts, ret, allExisted, proj, stub>>

\* the body is stored only after a response that passed raise_for_status
IoFor(ans) ==
    IF ans.kind = "response" /\ ~RaisesForStatus(ans.status)
    THEN IoOutcomes ELSE {"none"}

WorkerAttempt ==
    \E i \in 1..Len(tasks) : \E ans \in Answers : \E io \in IoFor(ans) :
        Attempt(i, ans, io)

\* lines 228-231 (variant: the else branch is lost)
Mut_Tally(c, success) == IF success THEN <<c[1] + 1, c[2]>> ELSE c
Tally(c, success) ==
    IF success THEN <<c[1] + 1, c[2]>> ELSE <<c[1], c[2] + 1>>

\* One iteration of "for future in as_completed(futures)", lines 226-234:
\* future.result() re-raises what the task raised, and the exception leaves
\* the loop.
Collect ==
    /\ frpc = "collect"
    /\ \E i \in Finished :
          /\ tk[i].counted = 0
          /\ tk[i].result # "consumed"
          /\ IF tk[i].result = "exc"
             THEN /\ frpc' = "unwinding"
                  /\ tk' = [tk EXCEPT ![i].result = "consumed"]
                  /\ UNCHANGED counts
             ELSE /\ counts' = Tally(counts, tk[i].result = "true")
                  /\ tk' = [tk EXCEPT ![i].counted = @ + 1]
                  /\ UNCHANGED frpc
    /\ UNCHANGED <<mainpc, args, zoom_level_ranges, zcur, overall, ncalls, fr, session, tasks,
                   nsub, ret, disk, allExisted, proj, stub>>

\* The executor's shutdown(wait=True) at the end of the with block has
\* nothing left to wait for (variant: shutdown(wait=False))
Mut_PoolDrained(running, pending) == TRUE
PoolDrained(running, pending) == running = {} /\ pending = {}

\* as_completed is exhausted; the with blocks end; lines 236-238
Return ==
    /\ frpc = "collect"
    /\ \A i \in 1..Len(tasks) : tk[i].st = "done" /\ tk[i].counted > 0
    /\ PoolDrained(Running, Pending)
    /\ session' = "closed"
    /\ ret' = counts
    /\ frpc' = "returned"
    /\ UNCHANGED <<mainpc, args, zoom_level_ranges, zcur, overall, ncalls, fr, tasks, nsub, tk,
                   counts, disk, allExisted, proj, stub>>

\* The exception of future.result() leaves the with block of line 218 once
\* the executor has run every submitted task, then leaves the function:
\* lines 236-238 are skipped.
Raise ==
    /\ frpc = "unwinding"
    /\ PoolDrained(Running, Pending)
    /\ frpc' = "raised"
    /\ UNCHANGED <<mainpc, args, zoom_level_ranges, zcur, overall, ncalls, fr, session, tasks,
                   nsub, tk, counts, ret, disk, allExisted, proj, stub>>

\* ------------------------------------------------------------ direct calls
\* download_tiles_for_zoom_level called directly with any rectangle of at
\* most MaxTiles tiles, empty and inverted ones included, a pool of
\* MaxWorkers threads and any retry count, and called again with the same
\* arguments on the same output directory, MaxCalls times in all.
Params ==
    {p \in [zoom : {MaxZoom}, min_x : Coords, max_x : -1..MaxCoord,
            min_y : Coords, max_y : -1..MaxCoord,
            max_workers : {MaxWorkers}, retries : 0..MaxRetries] :
        Cardinality(Rect(p)) <= MaxTiles}

InitFetch ==
    /\ mainpc = "harness"
    /\ args = NoArgs
    /\ zoom_level_ranges = << >>
    /\ zcur = 0
    /\ overall = <<0, 0>>
    /\ ncalls = 0
    /\ frpc = "idle"
    /\ fr \in Params
    /\ session = "none"
    /\ tasks = << >>
    /\ nsub = 0
    /\ tk = << >>
    /\ counts = <<0, 0>>
    /\ ret = << >>
    /\ disk = [t \in Tiles |-> "absent"]
    /\ allExisted = FALSE
    /\ proj = NoProj
    /\ stub = NoStub

Call ==
    /\ mainpc = "harness"
    /\ frpc \in {"idle", "returned", "raised"}
    /\ ncalls < MaxCalls
    /\ FetchEnter(fr)
    /\ UNCHANGED <<mainpc, args, zoom_level_ranges, zcur, overall, proj, stub>>

NextFetch ==
    \/ Call
    \/ Submit
    \/ WorkerStart
    \/ WorkerAttempt
    \/ Collect
    \/ Return
    \/ Raise

SpecFetch == InitFetch /\ [][NextFetch]_vars

\* ------------------------------------------------------------ one call against a script
\* What one attempt is answered in a scripted run: a 200 whose body is
\* stored completely, or breaks in the stream, or meets an OSError; a
\* timeout.
ScriptSteps ==
    {[ans |-> [kind |-> "response", status |-> 200], io |-> o] :
        o \in IoOutcomes}
    \cup {[ans |-> [kind |-> "Timeout", status |-> 0], io |-> "none"]}

\* The scripts for the call with parameters p: one step for every task and
\* every attempt the loop of line 134 allows, and the file, complete or
\* absent, every tile of the rectangle has before the call.
Stubs(p) ==
    LET n == Len(BuildTasks(p.zoom, p.min_x, p.max_x, p.min_y, p.max_y))
    IN  {[script |-> sc, disk0 |-> d] :
            sc \in [1..n -> [1..(p.retries + 1) -> ScriptSteps]],
            d \in {e \in [Tiles -> {"absent", "full"}] :
                      \A t \in Tiles \ Rect(p) : e[t] = "absent"}}

InitOrder ==
    /\ mainpc = "order"
    /\ args = NoArgs
    /\ zoom_level_ranges = << >>
    /\ zcur = 0
    /\ overall = <<0, 0>>
    /\ ncalls = 0
    /\ frpc = "idle"
    /\ fr \in Params
    /\ session = "none"
    /\ tasks = << >>
    /\ nsub = 0
    /\ tk = << >>
    /\ counts = <<0, 0>>
    /\ ret = << >>
    /\ stub \in Stubs(fr)
    /\ disk = stub.disk0
    /\ allExisted = FALSE
    /\ proj = NoProj

CallScripted ==
    /\ mainpc = "order"
    /\ frpc = "idle"
    /\ FetchEnter(fr)
    /\ UNCHANGED <<mainpc, args, zoom_level_ranges, zcur, overall, proj, stub>>

\* session.get and the storing of the body answer task i on its k-th
\* attempt what the script holds for it
ScriptedAttempt ==
    \E i \in 1..Len(tasks) :
        /\ tk[i].st = "running"
        /\ LET s == stub.script[i][tk[i].attempt + 1]
           IN  Attempt(i, s.ans, s.io)

NextOrder ==
    \/ CallScripted
    \/ Submit
    \/ WorkerStart
    \/ ScriptedAttempt
    \/ Collect
    \/ Return
    \/ Raise

SpecOrder == InitOrder /\ [][NextOrder]_vars

\* ------------------------------------------------------------ the projection called directly
\* deg2num on the point (min_lat, min_lon) and get_tile_range on the box,
\* for every choice of the four coordinates among the samples, corners in
\* either order, and every zoom level up to MaxGeoZoom.
GeoInputs ==
    [min_lat : LatSamples, min_lon : LonSamples,
     max_lat : LatSamples, max_lon : LonSamples,
     zoom : 0..MaxGeoZoom, point : {<< >>}, range : {<< >>}]

InitGeo ==
    /\ mainpc = "geo"
    /\ args = NoArgs
    /\ zoom_level_ranges = << >>
    /\ zcur = 0
    /\ overall = <<0, 0>>
    /\ ncalls = 0
    /\ frpc = "idle"
    /\ fr = NoParams
    /\ session = "none"
    /\ tasks = << >>
    /\ nsub = 0
    /\ tk = << >>
    /\ counts = <<0, 0>>
    /\ ret = << >>
    /\ disk = [t \in Tiles |-> "absent"]
    /\ allExisted = FALSE
    /\ proj \in GeoInputs
    /\ stub = NoStub

CallDeg2Num ==
    /\ mainpc = "geo"
    /\ proj.point = << >>
    /\ proj' = [proj EXCEPT !.point = deg2num(proj.min_lat, proj.min_lon,
                                               proj.zoom)]
    /\ UNCHANGED <<mainpc, args, zoom_level_ranges, zcur, overall, ncalls,
                   frpc, fr, session, tasks, nsub, tk, counts, ret, disk,
                   allExisted, stub>>

CallGetTileRange ==
    /\ mainpc = "geo"
    /\ proj.range = << >>
    /\ proj' = [proj EXCEPT !.range =
                   get_tile_range(proj.min_lat, proj.min_lon,
                                  proj.max_lat, proj.max_lon, proj.zoom)]
    /\ UNCHANGED <<mainpc, args, zoom_level_ranges, zcur, overall, ncalls,
                   frpc, fr, session, tasks, nsub, tk, counts, ret, disk,
                   allExisted, stub>>

NextGeo ==
    \/ CallDeg2Num
    \/ CallGetTileRange

SpecGeo == InitGeo /\ [][NextGeo]_vars

\* ------------------------------------------------------------ main
\* The geographic options of the command lines: the equator and the north
\* pole, the prime meridian and the seam.
MainLats == {LatDeg9(0), LatDeg9(10)}
MainLons == {LonDeg(0), LonDeg(180)}

\* The command lines: a zoom range; the four tile-index options, the four
\* geographic options, both groups or neither (options not given are 0
\* here); the pool size and the retry count.  No zoom level gets more than
\* MaxTiles tiles.
ArgSets ==
    {a \in [min_zoom : -1..MaxZoom, max_zoom : Zooms,
            coord_params_specified : BOOLEAN,
            tile_params_specified : BOOLEAN,
            min_lat : MainLats, min_lon : MainLons,
            max_lat : MainLats, max_lon : MainLons,
            min_x : Coords, max_x : Coords, min_y : Coords, max_y : Coords,
            workers : 1..MaxWorkers, retries : 0..MaxRetries] :
        /\ IF a.tile_params_specified
           THEN (a.max_x - a.min_x + 1) * (a.max_y - a.min_y + 1) <= MaxTiles
           ELSE a.min_x = 0 /\ a.max_x = 0 /\ a.min_y = 0 /\ a.max_y = 0
        /\ IF a.coord_params_specified /\ ~a.tile_params_specified
           THEN \A z \in Zooms :
                   LET r == get_tile_range(a.min_lat, a.min_lon,
                                           a.max_lat, a.max_lon, z)
                   IN  TotalTiles(r[1], r[2], r[3], r[4]) <= MaxTiles
           ELSE /\ a.min_lat = 0 /\ a.max_lat = 0
                /\ a.min_lon = 0 /\ a.max_lon = 0}

Init ==
    /\ mainpc = "start"
    /\ args \in ArgSets
    /\ zoom_level_ranges = << >>
    /\ zcur = 0
    /\ overall = <<0, 0>>
    /\ ncalls = 0
    /\ frpc = "idle"
    /\ fr = NoParams
    /\ session = "none"
    /\ tasks = << >>
    /\ nsub = 0
    /\ tk = << >>
    /\ counts = <<0, 0>>
    /\ ret = << >>
    /\ disk = [t \in Tiles |-> "absent"]
    /\ allExisted = FALSE
    /\ proj = NoProj
    /\ stub = NoStub

\* lines 360 and 368-374
ArgsRejected(a) ==
    \/ a.min_zoom < 0 \/ a.max_zoom < a.min_zoom
    \/ a.coord_params_specified /\ a.tile_params_specified
    \/ ~(a.coord_params_specified \/ a.tile_params_specified)

\* line 408
BoxRejected(a) == a.min_x > a.max_x \/ a.min_y > a.max_y

\* min_x, max_x, min_y, max_y of one zoom level, lines 390-406
ZoomRange(a, z) ==
    IF a.coord_params_specified
    THEN get_tile_range(a.min_lat, a.min_lon, a.max_lat, a.max_lon, z)
    ELSE <<a.min_x, a.max_x, a.min_y, a.max_y>>

\* num_tiles_in_zoom, lines 412-414
NumTilesInZoom(r) ==
    LET n == (r[2] - r[1] + 1) * (r[4] - r[3] + 1)
    IN  IF n < 0 THEN 0 ELSE n

\* The exit status of the interpreter for the way main ended, lines 450-451:
\* main() is called bare, so a return of main, early or not, ends the
\* process with status 0, and only an uncaught exception ends it with 1.
ExitStatus(pc) == IF pc = "crashed" THEN 1 ELSE 0

\* lines 352-422: the checks of the arguments and the ranges of every zoom
\* level, up to the start of the download loop.  A rejected command line and
\* a run with no tile at all both end main by a plain return.
MainValidate ==
    /\ mainpc = "start"
    /\ IF ArgsRejected(args)
          \/ (~args.coord_params_specified /\ BoxRejected(args))
       THEN /\ mainpc' = "error"
            /\ UNCHANGED <<zoom_level_ranges, zcur>>
       ELSE /\ zoom_level_ranges' =
                 [z \in args.min_zoom..args.max_zoom |-> ZoomRange(args, z)]
            /\ zcur' = args.min_zoom
            /\ mainpc' = IF \A z \in args.min_zoom..args.max_zoom :
                                 NumTilesInZoom(zoom_level_ranges'[z]) = 0
                          THEN "nothing" ELSE "loop"
    /\ UNCHANGED <<args, overall, ncalls, frpc, fr, session, tasks, nsub, tk,
                   counts, ret, disk, allExisted, proj, stub>>

\* lines 429-443: the call for zoom level zcur
MainCall ==
    /\ mainpc = "loop"
    /\ zcur <= args.max_zoom
    /\ LET r == zoom_level_ranges[zcur]
       IN  FetchEnter([zoom |-> zcur, min_x |-> r[1], max_x |-> r[2],
                       min_y |-> r[3], max_y |-> r[4],
                       max_workers |-> args.workers,
                       retries |-> args.retries])
    /\ mainpc' = "call"
    /\ UNCHANGED <<args, zoom_level_ranges, zcur, overall, proj, stub>>

\* lines 444-445 and the next iteration
MainResume ==
    /\ mainpc = "call"
    /\ frpc = "returned"
    /\ overall' = <<overall[1] + ret[1], overall[2] + ret[2]>>
    /\ zcur' = zcur + 1
    /\ mainpc' = IF zcur + 1 <= args.max_zoom THEN "loop" ELSE "done"
    /\ UNCHANGED <<args, zoom_level_ranges, ncalls, frpc, fr, session, tasks,
                   nsub, tk, counts, ret, disk, allExisted, proj, stub>>

\* an exception out of download_tiles_for_zoom_level is caught nowhere in main
MainCrash ==
    /\ mainpc = "call"
    /\ frpc = "raised"
    /\ mainpc' = "crashed"
    /\ UNCHANGED <<args, zoom_level_ranges, zcur, overall, ncalls, frpc, fr,
                   session, tasks, nsub, tk, counts, ret, disk, allExisted, proj, stub>>

Next ==
    \/ MainValidate
    \/ MainCall
    \/ MainResume
    \/ MainCrash
    \/ Submit
    \/ WorkerStart
    \/ WorkerAttempt
    \/ Collect
    \/ Return
    \/ Raise

Spec == Init /\ [][Next]_vars

\* ------------------------------------------------------------ claims
NonEmptyRange == fr.min_x <= fr.max_x /\ fr.min_y <= fr.max_y
RectSize == (fr.max_x - fr.min_x + 1) * (fr.max_y - fr.min_y + 1)
Over == frpc \in {"returned", "raised"}
SubmitCount(t) == Cardinality({i \in 1..nsub : tasks[i] = t})

\* C1: a tile whose file is absent and whose every answer was HTTP 400, 403
\* or 404 has had exactly one request, is finished and has failed.
C1_PermanentNoRetry ==
    \A i \in DOMAIN tk :
        tk[i].hist = "permanent" =>
            tk[i].calls = 1 /\ tk[i].st = "done" /\ tk[i].result = "false"

\* C2: a tile whose file is absent and whose every answer was a transient
\* failure has had at most 1+retries requests, is given up exactly when it
\* has had 1+retries, and then has failed.
C2_TransientRetryBound ==
    \A i \in DOMAIN tk :
        tk[i].hist = "transient" =>
            /\ tk[i].calls <= 1 + fr.retries
            /\ (tk[i].st = "done") = (tk[i].calls = 1 + fr.retries)
            /\ tk[i].st = "done" => tk[i].result = "false"

C2_Witness ==
    \E i \in DOMAIN tk :
        /\ tk[i].hist = "transient" /\ tk[i].st = "done"
        /\ fr.retries = MaxRetries /\ tk[i].calls = 1 + MaxRetries

\* C3: a task that found its file is a success with no request made; and a
\* call that began with a file for every tile of its rectangle makes no
\* request, raises nothing and returns every tile as a success.
C3_Resumable ==
    /\ \A i \in DOMAIN tk :
          tk[i].existed =>
              tk[i].calls = 0 /\ tk[i].st = "done" /\ tk[i].result = "true"
    /\ allExisted /\ frpc # "idle" =>
          /\ \A i \in DOMAIN tk : tk[i].calls = 0
          /\ frpc \notin {"unwinding", "raised"}
          /\ frpc = "returned" => ret = <<Cardinality(Rect(fr)), 0>>

C3_Witness ==
    /\ ncalls = 2 /\ allExisted /\ frpc = "returned"
    /\ Cardinality(Rect(fr)) = 2 /\ ret = <<2, 0>>

\* C4: once the attempts for a tile are over, a file at its path holds a
\* completely written body; and a task that reports success because its
\* file exists has a complete file.
C4_NoPartialLeft ==
    /\ \A t \in Tiles :
          disk[t] = "partial" => \E i \in Running : tasks[i] = t
    /\ \A i \in DOMAIN tk :
          tk[i].existed /\ tk[i].result = "true" => disk[tasks[i]] = "full"

\* C5: what a call on a non-empty rectangle returns sums to the number of
\* tiles of the rectangle.
C5_CountConservation ==
    frpc = "returned" /\ NonEmptyRange => ret[1] + ret[2] = RectSize

C5_Witness ==
    /\ frpc = "returned" /\ NonEmptyRange
    /\ ret = <<1, 1>>
    /\ \E i \in DOMAIN tk : tk[i].hist = "transient"

\* C6: no call ends with an error propagating to its caller.
C6_NoErrorPropagates == frpc # "raised"

\* C7: at most args.workers tile fetches are in flight; every queued or
\* running fetch belongs to the zoom level main is at; and main is between
\* two calls, or over, only with the pool drained.
C7_BoundedConcurrency ==
    /\ Cardinality(Running) <= args.workers
    /\ \A i \in Running \cup Pending : tasks[i][1] = zcur
    /\ mainpc # "call" => Running = {} /\ Pending = {}

C7_Witness ==
    /\ mainpc = "call" /\ zcur > args.min_zoom
    /\ Cardinality(Running) = args.workers /\ Pending # {}

\* C8: the tasks submitted are tiles of the rectangle, none twice, and all of
\* them once submission is over; no task is begun or tallied twice; every
\* task has been begun once when the call is over, and tallied once when it
\* has returned.
C8_ExactlyOnce ==
    /\ \A i \in 1..nsub : tasks[i] \in Rect(fr)
    /\ \A t \in Rect(fr) : SubmitCount(t) <= 1
    /\ \A i \in DOMAIN tk : (tk[i].st # "unsubmitted") = (i <= nsub)
    /\ frpc \in {"collect", "unwinding", "returned", "raised"} =>
          \A t \in Rect(fr) : SubmitCount(t) = 1
    /\ \A i \in DOMAIN tk : tk[i].started <= 1 /\ tk[i].counted <= 1
    /\ Over => \A i \in DOMAIN tk : tk[i].started = 1
    /\ frpc = "returned" =>
          /\ \A i \in DOMAIN tk : tk[i].counted = 1
          /\ ret[1] = Cardinality({i \in DOMAIN tk : tk[i].result = "true"})
          /\ ret[2] = Cardinality({i \in DOMAIN tk : tk[i].result = "false"})

C8_Witness ==
    /\ frpc = "returned" /\ Len(tasks) = 2 /\ fr.min_x > 0
    /\ \A i \in DOMAIN tk : tk[i].counted = 1 /\ tk[i].calls > 0

\* C9: a call on an empty rectangle submits no task, makes no request,
\* raises nothing and returns <<0, 0>>.
C9_EmptyRange ==
    ~NonEmptyRange /\ frpc # "idle" =>
        /\ tasks = << >> /\ nsub = 0 /\ tk = << >>
        /\ frpc \in {"collect", "returned"}
        /\ frpc = "returned" => ret = <<0, 0>>

C9_Witness ==
    /\ frpc = "returned" /\ ret = <<0, 0>>
    /\ fr.max_x < fr.min_x /\ fr.max_y < fr.min_y /\ RectSize > 0

\* C10: when a call is over, however it ended, its session is not open.
C10_SessionReleased == Over => session # "open"

\* C11: a run whose command line violates a precondition (negative or
\* inverted zoom range, both or neither of the geographic and the tile-index
\* box, inverted tile-index box) ends in the error state with no call made,
\* no file written and a non-zero exit status.
C11_PreconditionFatal ==
    (/\ mainpc # "start"
     /\ ArgsRejected(args)
           \/ (~args.coord_params_specified /\ BoxRejected(args))) =>
        /\ mainpc = "error"
        /\ ncalls = 0
        /\ \A t \in Tiles : disk[t] = "absent"
        /\ ExitStatus(mainpc) # 0

GridMax == 2 ^ proj.zoom - 1
Projected == proj.point # << >>
Resolved == proj.range # << >>

\* C12: whatever the latitude, the longitude and the zoom level, deg2num
\* returns a column and a row within 0..2^zoom-1; the column is the
\* unwrapped column modulo 2^zoom and the row is the unclamped row forced
\* into the grid.
C12_ProjectionBounds ==
    Projected =>
        LET n == 2 ^ proj.zoom
            xtile == Trunc(proj.min_lon + LonDeg(180), LonDeg(360) \div n)
            ytile == Trunc(MercatorFraction[ClampLat(proj.min_lat)],
                           1000000000 \div n)
        IN  /\ proj.point[1] \in 0..GridMax
            /\ proj.point[2] \in 0..GridMax
            /\ (proj.point[1] - xtile) % n = 0
            /\ proj.point[2] = (IF ytile > GridMax THEN GridMax
                                ELSE IF ytile < 0 THEN 0 ELSE ytile)

\* a point west of -180 degrees beyond a whole tile, south of the Mercator
\* limit, at the deepest zoom: the column was wrapped and the row clamped
C12_Witness ==
    /\ Projected /\ proj.zoom = MaxGeoZoom
    /\ proj.min_lon = LonDeg(-450) /\ proj.min_lat = LatDeg9(-10)
    /\ proj.point = <<2 ^ MaxGeoZoom \div 4, GridMax>>

\* C13: on the box of latitudes -90 and 90 and longitudes -180 and 180, the
\* corners in either order, get_tile_range returns the whole grid
\* 0..2^zoom-1 on both axes.
C13_FullWorld ==
    (/\ Resolved
     /\ {proj.min_lat, proj.max_lat} = {LatDeg9(-10), LatDeg9(10)}
     /\ {proj.min_lon, proj.max_lon} = {LonDeg(-180), LonDeg(180)}) =>
        proj.range = <<0, GridMax, 0, GridMax>>

\* the world box with both pairs of corners swapped, at the deepest zoom
C13_Witness ==
    /\ Resolved /\ proj.zoom = MaxGeoZoom
    /\ proj.min_lat = LatDeg9(10) /\ proj.max_lat = LatDeg9(-10)
    /\ proj.min_lon = LonDeg(180) /\ proj.max_lon = LonDeg(-180)
    /\ proj.range = <<0, GridMax, 0, GridMax>>

\* C14: at longitude 180 and at longitude -180 deg2num returns column 0,
\* whatever the latitude and the zoom level.
C14_LongitudeWrap ==
    Projected /\ proj.min_lon \in {LonDeg(180), LonDeg(-180)} =>
        proj.point[1] = 0

C14_Witness ==
    /\ Projected /\ proj.zoom = MaxGeoZoom
    /\ proj.min_lon = LonDeg(180) /\ proj.min_lat = LatDeg9(5)
    /\ proj.point[1] = 0 /\ proj.point[2] > 0

\* C15: for every task the subdomain has been drawn, and the url built, as
\* many times as the task has made requests.
C15_SelectedPerAttempt ==
    \A i \in DOMAIN tk : tk[i].calls > 0 => tk[i].picks = tk[i].calls

\* download_tile for one tile run alone from the given attempt on, the file
\* being d: the value returned ("exc" for an exception that leaves it) and
\* the file it leaves.
RECURSIVE Alone(_, _, _, _)
Alone(steps, attempt, retries, d) ==
    IF attempt > retries THEN [result |-> "false", file |-> d]
    ELSE LET s == steps[attempt + 1]
         IN  IF s.ans.kind # "response" \/ s.ans.status >= 400
             THEN Alone(steps, attempt + 1, retries, d)
             ELSE CASE s.io = "complete" ->
                          [result |-> "true", file |-> "full"]
                    [] s.io = "stream_error" ->
                          Alone(steps, attempt + 1, retries, "partial")
                    [] s.io = "oserror_open" ->
                          [result |-> "exc", file |-> d]
                    [] s.io = "oserror_write" ->
                          [result |-> "exc", file |-> "partial"]

\* what task i comes to when the tasks are run one after the other
Expected(i) ==
    IF stub.disk0[tasks[i]] # "absent"
    THEN [result |-> "true", file |-> stub.disk0[tasks[i]]]
    ELSE Alone(stub.script[i], 0, fr.retries, "absent")

ExpectedCount(r) ==
    Cardinality({i \in DOMAIN tasks : Expected(i).result = r})

\* C16: in a scripted run, whatever the order in which the workers ran and
\* the tasks completed, every finished task has the result and has left the
\* file it has when run alone; and when the call is over the disk holds
\* exactly those files, the call has raised exactly when some task raises,
\* and what it returns is the number of tasks that succeed alone and the
\* number that fail alone.
C16_OrderIndependent ==
    mainpc = "order" =>
        /\ \A i \in DOMAIN tk :
              tk[i].st = "done" =>
                  /\ disk[tasks[i]] = Expected(i).file
                  /\ tk[i].result =
                        (IF tk[i].result = "consumed"
                         THEN "consumed" ELSE Expected(i).result)
                  /\ tk[i].result = "consumed" => Expected(i).result = "exc"
        /\ Over =>
              /\ \A i \in DOMAIN tasks : disk[tasks[i]] = Expected(i).file
              /\ \A t \in Tiles \ Rect(fr) : disk[t] = "absent"
              /\ (frpc = "raised") = (ExpectedCount("exc") > 0)
              /\ frpc = "returned" =>
                    ret = <<ExpectedCount("true"), ExpectedCount("false")>>

\* a call on two tiles, both absent, has returned one success and one
\* failure: the first task broke in the stream and succeeded on its retry,
\* the second timed out twice
C16_Witness ==
    /\ mainpc = "order" /\ frpc = "returned" /\ Len(tasks) = 2
    /\ ret = <<1, 1>>
    /\ tk[1].calls = 2 /\ tk[1].result = "true"
    /\ tk[2].calls = 2 /\ tk[2].result = "false"

\* C17: every task submitted to the pool has its column and its row within
\* 0..2^zoom-1 for its zoom level.
C17_TasksInGrid ==
    \A i \in 1..nsub :
        /\ tasks[i][2] \in 0..(2 ^ tasks[i][1] - 1)
        /\ tasks[i][3] \in 0..(2 ^ tasks[i][1] - 1)

\* C18: two workers running at the same time hold different tiles, hence
\* different file paths, and every running worker holds a tile of the zoom
\* level main is at, so that none is left over from an earlier level.
C18_NoSharedPath ==
    /\ \A i, j \in Running : i # j => tasks[i] # tasks[j]
    /\ \A i \in Running : tasks[i][1] = zcur
    /\ \A i \in DOMAIN tk :
          tk[i].st \in {"unsubmitted", "pending"} => tk[i].calls = 0

\* two workers at the second zoom level of a run, one of which has written
\* part of its file and is retrying while the other has made a request
C18_Witness ==
    /\ mainpc = "call" /\ zcur > args.min_zoom
    /\ \E i, j \in Running :
          /\ i # j
          /\ disk[tasks[i]] = "partial" /\ tk[i].calls > 0
          /\ tk[j].calls > 0

\* C19: for a box given in order, with both longitudes within -180..180,
\* that is not taken for the whole world, get_tile_range returns as min_x
\* the column of the west edge and as max_x the column of the east edge.
C19_EdgeColumns ==
    (/\ Resolved
     /\ proj.min_lat <= proj.max_lat
     /\ LonDeg(-180) <= proj.min_lon /\ proj.min_lon <= proj.max_lon
     /\ proj.max_lon <= LonDeg(180)
     /\ ~(/\ IsGlobalLon(proj.min_lon, proj.max_lon)
          /\ IsGlobalLat(proj.min_lat, proj.max_lat))) =>
        /\ proj.range[1] =
              deg2num(proj.max_lat, proj.min_lon, proj.zoom)[1]
        /\ proj.range[2] =
              deg2num(proj.min_lat, proj.max_lon, proj.zoom)[1]
====
